---- MODULE Spec2Model ----
(***************************************************************************)
(* Customer interaction form: the zod validator (src/lib/validation.ts),   *)
(* the submission endpoint (src/app/api/interactions/route.ts), the form   *)
(* page (InteractionsPage) and its dropdown-option cache.                  *)
(*                                                                         *)
(* A JavaScript string is a tuple of one-character strings, so that        *)
(* .length is Len and .trim() is computed.  A JSON object is a function    *)
(* whose DOMAIN is the set of keys that are present; an undefined          *)
(* property is an absent key (JSON.stringify drops it).                    *)
(***************************************************************************)
EXTENDS Integers, Sequences, FiniteSets, TLC

VARIABLES
  \* --- submission endpoint ---
  body,          \* the JSON body of the request POST is handling
  response,      \* the JSON response of POST (NoResponse before it answers)
  store,         \* rows of the interactions table, in insertion order
  now,           \* the last instant the server read from its clock
  configured,    \* NEXT_PUBLIC_SUPABASE_URL / _ANON_KEY are set
  \* --- form page ---
  values,        \* the answers held by useForm
  isSubmitting,  \* useState(false)
  errors,        \* the fields that carry an error message
  toast,         \* the last toast shown
  requests,      \* the fetch calls of onSubmit that have not settled
  editsInFlight, \* answer changes made since the pending submission began
  \* --- dropdown options ---
  options,       \* staffMembers, channels, branches, categories
  loadingOptions,\* useState(!hasCachedData)
  localStorage,  \* the browser's localStorage
  hasCachedData, \* whether any list was cached when the page mounted
  runs,          \* fetches, checks and timers of the page that are pending
  refreshFailed, \* history: the refresh that ended last ended in a failure
  \* --- admin dashboard ---
  optionTable,   \* the lookup table of the active settings tab, id -> row
  tabOptions,    \* FormSettingsTab: useState<FormOption[]>([])
  interactions,  \* InteractionsTab: useState<Interaction[]>([])
  \* --- AuthProvider ---
  user,          \* useState<User | null>(null)
  session,       \* useState<Session | null>(null)
  loading,       \* useState(true)
  sessionReady,  \* useState(false)
  isAdmin,       \* useState(false)
  authSession,   \* the session supabase.auth holds: what getSession returns
  calls,         \* async functions of the provider that are suspended
  timeoutFired   \* the flag of the safety timeout

apiVars == <<body, response, store, now, configured>>
formVars == <<values, isSubmitting, errors, toast, requests, editsInFlight>>
optVars == <<options, loadingOptions, localStorage, hasCachedData, runs,
  refreshFailed>>
adminVars == <<optionTable, tabOptions, interactions>>
authVars == <<user, session, loading, sessionReady, isAdmin, authSession,
  calls, timeoutFired>>
dashVars == <<adminVars, authVars>>

vars == <<body, response, store, now, configured,
          values, isSubmitting, errors, toast, requests, editsInFlight,
          options, loadingOptions, localStorage, hasCachedData, runs,
  refreshFailed, optionTable, tabOptions, interactions,
  user, session, loading, sessionReady, isAdmin, authSession,
  calls, timeoutFired>>

----------------------------------------------------------------------------
(* Strings *)

Rep(c, n) == [i \in 1..n |-> c]

StrEmpty == <<>>
StrBlank == <<" ">>

StrInStore   == <<"I","n","-","s","t","o","r","e">>
StrWhatsApp   == <<"W","h","a","t","s","A","p","p">>
StrPhone      == <<"P","h","o","n","e">>
StrOther      == <<"O","t","h","e","r">>
StrGames      == <<"G","a","m","e","s">>
StrBridgetown == <<"B","r","i","d","g","e","t","o","w","n">>
StrShelly     == <<"S","h","e","l","l","y">>
StrNobody     == <<"N","o","b","o","d","y">>

IsSpace(c) == c = " "

RECURSIVE TrimStart(_)
TrimStart(s) ==
  IF s # <<>> /\ IsSpace(Head(s)) THEN TrimStart(Tail(s)) ELSE s

RECURSIVE TrimEnd(_)
TrimEnd(s) ==
  IF s # <<>> /\ IsSpace(s[Len(s)]) THEN TrimEnd(SubSeq(s, 1, Len(s) - 1)) ELSE s

\* String.prototype.trim
Trim(s) == TrimEnd(TrimStart(s))

----------------------------------------------------------------------------
(* JSON objects *)

Has(o, k) == k \in DOMAIN o

\* o with property k set to v
With(o, k, v) == [x \in DOMAIN o \cup {k} |-> IF x = k THEN v ELSE o[x]]

\* o without property k
Without(o, k) == [x \in DOMAIN o \ {k} |-> o[x]]

\* o restricted to the keys in ks
Pick(o, ks) == [x \in DOMAIN o \cap ks |-> o[x]]

EmptyObject == [x \in {} |-> TRUE]

----------------------------------------------------------------------------
(* src/lib/validation.ts *)

MaxOther  == 60
MaxWanted == 120
MinWanted == 1

SchemaKeys ==
  {"staffName", "channel", "otherChannel", "branch", "category",
   "otherCategory", "purchased", "outOfStock", "wantedItem"}

Issue(path, code) == [path |-> path, code |-> code]

\* z.string(): a missing key is an invalid_type issue
RequiredString(o, k) ==
  IF Has(o, k) THEN {} ELSE {Issue(k, "invalid_type")}

\* z.string().max(n).optional()
OptionalStringMax(o, k, n) ==
  IF Has(o, k) /\ Len(o[k]) > n THEN {Issue(k, "too_big")} ELSE {}

\* z.string().min(lo).max(hi)
StringMinMax(o, k, lo, hi) ==
  IF ~Has(o, k) THEN {Issue(k, "invalid_type")}
  ELSE (IF Len(o[k]) < lo THEN {Issue(k, "too_small")} ELSE {})
       \cup (IF Len(o[k]) > hi THEN {Issue(k, "too_big")} ELSE {})

\* the issues of baseSchema (z.object) on o
baseSchema(o) ==
  RequiredString(o, "staffName")
  \cup RequiredString(o, "channel")
  \cup OptionalStringMax(o, "otherChannel", MaxOther)
  \cup RequiredString(o, "category")
  \cup OptionalStringMax(o, "otherCategory", MaxOther)
  \cup StringMinMax(o, "wantedItem", MinWanted, MaxWanted)

\* x && x.trim().length > 0, for an optional string property
NonBlank(o, k) == Has(o, k) /\ o[k] # StrEmpty /\ Len(Trim(o[k])) > 0

\* the value of a property, or a value no string equals when it is undefined
ChannelIs(o, v) == Has(o, "channel") /\ o["channel"] = v
CategoryIs(o, v) == Has(o, "category") /\ o["category"] = v
PurchasedIs(o, v) == Has(o, "purchased") /\ o["purchased"] = v

\* a staffName refinement that lets every value through
staffNameRefineMissing(d) == TRUE

staffNameRefine(d) == NonBlank(d, "staffName")
channelRefine(d) == NonBlank(d, "channel")
categoryRefine(d) == NonBlank(d, "category")
\* an otherChannel refinement that lets every value through
otherChannelRefineMissing(d) == TRUE

otherChannelRefine(d) ==
  IF ChannelIs(d, StrOther) THEN NonBlank(d, "otherChannel") ELSE TRUE
\* a branch refinement that demands a branch only once a staff member is chosen
branchRefineByStaff(d) ==
  IF ChannelIs(d, StrInStore) /\ NonBlank(d, "staffName")
  THEN NonBlank(d, "branch") ELSE TRUE

branchRefine(d) ==
  IF ChannelIs(d, StrInStore) THEN NonBlank(d, "branch") ELSE TRUE
otherCategoryRefine(d) ==
  IF CategoryIs(d, StrOther) THEN NonBlank(d, "otherCategory") ELSE TRUE
\* a purchased refinement that demands an answer on every channel
purchasedRefineAlways(d) == Has(d, "purchased")

purchasedRefine(d) ==
  IF ChannelIs(d, StrInStore) \/ ChannelIs(d, StrWhatsApp)
  THEN Has(d, "purchased") ELSE TRUE
outOfStockRefine(d) ==
  IF PurchasedIs(d, FALSE) THEN Has(d, "outOfStock") ELSE TRUE

\* the issues of the eight .refine() calls, each with its path
Refinements(d) ==
  (IF staffNameRefine(d) THEN {} ELSE {Issue("staffName", "custom")})
  \cup (IF channelRefine(d) THEN {} ELSE {Issue("channel", "custom")})
  \cup (IF categoryRefine(d) THEN {} ELSE {Issue("category", "custom")})
  \cup (IF otherChannelRefine(d) THEN {} ELSE {Issue("otherChannel", "custom")})
  \cup (IF branchRefine(d) THEN {} ELSE {Issue("branch", "custom")})
  \cup (IF otherCategoryRefine(d) THEN {} ELSE {Issue("otherCategory", "custom")})
  \cup (IF purchasedRefine(d) THEN {} ELSE {Issue("purchased", "custom")})
  \cup (IF outOfStockRefine(d) THEN {} ELSE {Issue("outOfStock", "custom")})

\* interactionSchema: the object schema strips unknown keys; a refinement
\* runs unless the object parse aborted on a type error.
interactionSchema(o) ==
  LET base == baseSchema(o)
      aborted == \E i \in base : i.code = "invalid_type"
      data == Pick(o, SchemaKeys)
      issues == IF aborted THEN base ELSE base \cup Refinements(data)
  IN [success |-> issues = {}, data |-> data, issues |-> issues]

----------------------------------------------------------------------------
(* src/app/api/interactions/route.ts *)

NoResponse == [status |-> 0]

\* Date.prototype.toISOString of the instant t
toISOString(t) == <<"iso", t>>

\* error.message of the Error POST catches
ErrorMessage(name, issues) == <<name, issues>>

\* the column of the interactions table a payload property is written to
Column(k) ==
  CASE k = "timestamp"     -> "timestamp"
    [] k = "staffName"     -> "staff_name"
    [] k = "channel"       -> "channel"
    [] k = "otherChannel"  -> "other_channel"
    [] k = "branch"        -> "branch"
    [] k = "category"      -> "category"
    [] k = "otherCategory" -> "other_category"
    [] k = "wantedItem"    -> "wanted_item"
    [] k = "purchased"     -> "purchased"
    [] k = "outOfStock"    -> "out_of_stock"

\* InteractionPayload: the validated properties and the server's timestamp
Payload(validatedData, t) ==
  With(Pick(validatedData, SchemaKeys), "timestamp", toISOString(t))

\* the row .insert([{...}]) writes: an undefined property is no column value
InsertRow(payload) ==
  [c \in {Column(k) : k \in DOMAIN payload} |->
     payload[CHOOSE k \in DOMAIN payload : Column(k) = c]]

\* an .insert that replaces the rows of the table
insertReplacing(table, rows) == rows

\* supabase.from('interactions').insert(rows) on the rows of the table
insert(table, rows) == table \o rows

\* a POST that keeps the timestamp of the body when the body has one
POSTResultClientTimestamp(o, t, isConfigured, db) ==
  LET parsed == interactionSchema(o)
      stamped == Payload(parsed.data, t)
      payload == IF Has(o, "timestamp")
                 THEN With(stamped, "timestamp", o["timestamp"])
                 ELSE stamped
  IN IF ~parsed.success
     THEN [response |-> [status |-> 400, success |-> FALSE,
                         error |-> ErrorMessage("ZodError", parsed.issues)],
           rows |-> <<>>]
     ELSE IF isConfigured
     THEN IF db = "error"
          THEN [response |-> [status |-> 400, success |-> FALSE,
                              error |-> ErrorMessage("Database error", {})],
                rows |-> <<>>]
          ELSE [response |-> [status |-> 200, success |-> TRUE, data |-> payload],
                rows |-> <<InsertRow(payload)>>]
     ELSE [response |-> [status |-> 200, success |-> TRUE, data |-> payload],
           rows |-> <<>>]

\* What POST does with body o at instant t: the response it returns and the
\* rows it inserts.  db is the outcome of the insert, "ok" or "error".
POSTResult(o, t, isConfigured, db) ==
  LET parsed == interactionSchema(o)
      payload == Payload(parsed.data, t)
  IN IF ~parsed.success
     THEN [response |-> [status |-> 400, success |-> FALSE,
                         error |-> ErrorMessage("ZodError", parsed.issues)],
           rows |-> <<>>]
     ELSE IF isConfigured
     THEN IF db = "error"
          THEN [response |-> [status |-> 400, success |-> FALSE,
                              error |-> ErrorMessage("Database error", {})],
                rows |-> <<>>]
          ELSE [response |-> [status |-> 200, success |-> TRUE, data |-> payload],
                rows |-> <<InsertRow(payload)>>]
     ELSE [response |-> [status |-> 200, success |-> TRUE, data |-> payload],
           rows |-> <<>>]

DbOutcomes == {"ok", "error"}

\* the request bodies a client may send: every body within MaxEdits property
\* changes of one of BaseBodies
MaxClock == 1
MaxEdits == 1

StaffInputs == {StrEmpty, StrBlank, StrShelly, StrNobody}
ChannelInputs == {StrEmpty, StrInStore, StrWhatsApp, StrPhone, StrOther}
OtherChannelInputs == {StrEmpty, StrBlank, Rep("x", 1), Rep("x", MaxOther + 1)}
BranchInputs == {StrEmpty, StrBlank, StrBridgetown}
CategoryInputs == {StrEmpty, StrGames, StrOther}
OtherCategoryInputs == {StrEmpty, Rep("x", MaxOther), Rep("x", MaxOther + 1)}
WantedInputs == {StrEmpty, Rep("x", 1), Rep("x", MaxWanted), Rep("x", MaxWanted + 1)}
ClientTimestamps == {toISOString(99)}

BodyKeys == SchemaKeys \cup {"timestamp"}

PropValues(k) ==
  CASE k = "staffName"     -> StaffInputs
    [] k = "channel"       -> ChannelInputs
    [] k = "otherChannel"  -> OtherChannelInputs
    [] k = "branch"        -> BranchInputs
    [] k = "category"      -> CategoryInputs
    [] k = "otherCategory" -> OtherCategoryInputs
    [] k = "purchased"     -> BOOLEAN
    [] k = "outOfStock"    -> BOOLEAN
    [] k = "wantedItem"    -> WantedInputs
    [] k = "timestamp"     -> ClientTimestamps

CommonProps ==
  [staffName |-> StrShelly, category |-> StrGames, wantedItem |-> Rep("x", 1)]

Merge(a, b) ==
  [x \in DOMAIN a \cup DOMAIN b |-> IF x \in DOMAIN a THEN a[x] ELSE b[x]]

BaseBodies ==
  { Merge([channel |-> StrPhone], CommonProps),
    Merge([channel |-> StrInStore, branch |-> StrBridgetown, purchased |-> TRUE],
          CommonProps),
    Merge([channel |-> StrWhatsApp, purchased |-> FALSE, outOfStock |-> TRUE],
          CommonProps),
    Merge([channel |-> StrOther, otherChannel |-> Rep("x", 1),
           category |-> StrOther, otherCategory |-> Rep("x", MaxOther)],
          CommonProps),
    \* an In-store body that lacks its staffName and its branch
    [channel |-> StrInStore, category |-> StrGames, wantedItem |-> Rep("x", 1)],
    \* the body the form sends for untouched hidden fields
    Merge([channel |-> StrPhone, otherChannel |-> StrEmpty, branch |-> StrEmpty,
           otherCategory |-> StrEmpty], CommonProps) }

Edits(b) ==
  UNION {{With(b, k, v) : v \in PropValues(k)} : k \in BodyKeys}
  \cup {Without(b, k) : k \in BodyKeys}

RECURSIVE Edited(_, _)
Edited(B, n) ==
  IF n = 0 THEN B ELSE Edited(B \cup UNION {Edits(b) : b \in B}, n - 1)

Bodies == Edited(BaseBodies, MaxEdits)

\* useForm defaultValues: purchased and outOfStock are undefined
DefaultValues ==
  [staffName |-> StrEmpty, channel |-> StrEmpty, otherChannel |-> StrEmpty,
   branch |-> StrEmpty, category |-> StrEmpty, otherCategory |-> StrEmpty,
   wantedItem |-> StrEmpty]

\* the form page as first rendered
FormInit ==
  /\ values = DefaultValues
  /\ isSubmitting = FALSE
  /\ errors = {}
  /\ toast = "none"
  /\ requests = <<>>
  /\ editsInFlight = 0

\* the four option lists of the page
ListNames == {"staffMembers", "channels", "branches", "categories"}

\* STORAGE_KEYS
StorageKey(list) ==
  CASE list = "channels"     -> "form_options_channels"
    [] list = "branches"     -> "form_options_branches"
    [] list = "categories"   -> "form_options_categories"
    [] list = "staffMembers" -> "form_options_staff"

LastUpdatedKey == "form_options_last_updated"

\* saveToStorage(key, data); the lastUpdated stamp is written and never read
saveToStorage(ls, key, data) == With(With(ls, key, data), LastUpdatedKey, TRUE)

\* loadFromStorage(key) || []
loadFromStorage(ls, key) == IF Has(ls, key) THEN ls[key] ELSE <<>>

\* option lists as loaded from the lookup tables
LoadedOptions ==
  [staffMembers |-> <<StrShelly>>,
   channels |-> <<StrInStore, StrPhone>>,
   branches |-> <<StrBridgetown>>,
   categories |-> <<StrGames>>]

\* the cache after every list was saved
FullCache ==
  [k \in {StorageKey(l) : l \in ListNames} \cup {LastUpdatedKey} |->
     IF k = LastUpdatedKey THEN TRUE
     ELSE LoadedOptions[CHOOSE l \in ListNames : StorageKey(l) = k]]

\* the page with its options loaded and nothing pending
OptionsLoaded ==
  /\ options = LoadedOptions
  /\ loadingOptions = FALSE
  /\ localStorage = FullCache
  /\ hasCachedData = TRUE
  /\ runs = <<>>
  /\ refreshFailed = FALSE

\* the admin dashboard and the AuthProvider before anybody uses them

\* null, of a User or of a Session
Null == [null |-> TRUE]

\* lookup tables as the migration seeds them: display_order 1, 2
SeededTable == <<[display_order |-> 1], [display_order |-> 2]>>

\* the provider as mounted: initializeAuth is waiting for getSession, the
\* safety timeout is armed
AuthInit ==
  /\ user = Null
  /\ session = Null
  /\ loading = TRUE
  /\ sessionReady = FALSE
  /\ isAdmin = FALSE
  /\ calls = <<[fn |-> "initializeAuth", stage |-> "initialSession",
               user |-> Null]>>
  /\ timeoutFired = FALSE

\* the dashboard before its tabs have fetched anything
AdminInit ==
  /\ tabOptions = <<>>
  /\ interactions = <<>>

\* nobody uses the dashboard
DashboardIdle ==
  /\ optionTable = SeededTable
  /\ AdminInit
  /\ AuthInit
  /\ authSession = Null

InitApi ==
  /\ body \in Bodies
  /\ response = NoResponse
  /\ store = <<>>
  /\ now = 0
  /\ configured \in BOOLEAN
  /\ FormInit
  /\ OptionsLoaded
  /\ DashboardIdle

\* the instants new Date() may return once the clock reads t0
Instants(t0) == t0..MaxClock

\* export async function POST(request); t is the instant new Date() returns
POST(db, t) ==
  /\ response = NoResponse
  /\ now' = t
  /\ LET r == POSTResult(body, t, configured, db)
     IN /\ response' = r.response
        /\ store' = insert(store, r.rows)
  /\ UNCHANGED <<body, configured>>
  /\ UNCHANGED <<formVars, optVars, dashVars>>

NextApi ==
  \E db \in DbOutcomes, t \in Instants(now) : POST(db, t)

SpecApi == InitApi /\ [][NextApi]_vars

----------------------------------------------------------------------------
(* InteractionsPage: the form *)

MaxStore == 1
MaxInFlight == 2
MaxEditsInFlight == 1

Range(q) == {q[i] : i \in 1..Len(q)}

RemoveAt(q, i) == SubSeq(q, 1, i - 1) \o SubSeq(q, i + 1, Len(q))

FormFields == SchemaKeys

\* the JSX conditions under which a FormField is rendered
FieldVisible(v, field) ==
  CASE field = "otherChannel"  -> v["channel"] = StrOther
    [] field = "branch"        -> v["channel"] = StrInStore
    [] field = "otherCategory" -> v["category"] = StrOther
    [] field = "wantedItem"    -> v["channel"] # StrEmpty
    [] field = "purchased"     -> v["channel"] \in {StrInStore, StrWhatsApp}
    [] field = "outOfStock"    -> PurchasedIs(v, FALSE)
    [] OTHER                   -> TRUE

\* what the user can type into an Input
TypedTexts == {StrEmpty, Rep("x", 1)}

\* the values a rendered control can pass to field.onChange
InputChoices(field) ==
  CASE field = "staffName"     -> Range(options.staffMembers)
    [] field = "channel"       -> Range(options.channels)
    [] field = "branch"        -> Range(options.branches)
    [] field = "category"      -> Range(options.categories)
    [] field = "purchased"     -> BOOLEAN
    [] field = "outOfStock"    -> BOOLEAN
    [] OTHER                   -> TypedTexts

\* field.onChange of a rendered control: only that answer changes
onChange(field, v) ==
  /\ FieldVisible(values, field)
  /\ v \in InputChoices(field)
  /\ ~(Has(values, field) /\ values[field] = v)
  /\ isSubmitting => editsInFlight < MaxEditsInFlight
  /\ values' = With(values, field, v)
  /\ editsInFlight' = IF isSubmitting THEN editsInFlight + 1 ELSE 0
  /\ UNCHANGED <<isSubmitting, errors, toast, requests>>
  /\ UNCHANGED <<apiVars, optVars, dashVars>>

\* a serialization that loses the boolean answers
jsonBodyWithoutBooleans(data) ==
  [k \in DOMAIN data \ {"purchased", "outOfStock"} |-> data[k]]

\* JSON.stringify then request.json(): the defined properties, unchanged
jsonBody(data) == [k \in DOMAIN data |-> data[k]]

\* form.handleSubmit(onSubmit)(): the resolver validates the answers; if they
\* pass, onSubmit sets isSubmitting and sends the request
\* (one step: validation and setIsSubmitting(true) run in the microtasks of
\* the click or key event, and React commits the update before the next event)
handleSubmit ==
  /\ Len(requests) < MaxInFlight
  /\ Len(store) < MaxStore
  /\ LET parsed == interactionSchema(values)
     IN IF parsed.success
        THEN /\ isSubmitting' = TRUE
             /\ requests' = Append(requests,
                                   [stage |-> "sent", body |-> jsonBody(parsed.data)])
             /\ errors' = {}
             /\ editsInFlight' = 0
        ELSE /\ errors' = {i.path : i \in parsed.issues}
             /\ UNCHANGED <<isSubmitting, requests, editsInFlight>>
  /\ UNCHANGED <<values, toast>>
  /\ UNCHANGED <<apiVars, optVars, dashVars>>

\* a click on the submit Button, which is disabled while isSubmitting
submitClick ==
  /\ ~isSubmitting
  /\ handleSubmit

\* handleKeyDown without its !isSubmitting test
handleKeyDownUnguarded == handleSubmit

\* the Enter key: if (e.key === "Enter" && !isSubmitting)
handleKeyDown ==
  /\ ~isSubmitting
  /\ handleSubmit

\* the endpoint handles the request of one pending fetch, at the instant the
\* clock reads; the clock advances in SpecApi only
serverPOST(i, db) ==
  /\ i \in 1..Len(requests)
  /\ requests[i].stage = "sent"
  /\ (db = "ok" /\ configured) => Len(store) < MaxStore
  /\ LET r == POSTResult(requests[i].body, now, configured, db)
     IN /\ store' = insert(store, r.rows)
        /\ requests' = [requests EXCEPT ![i] =
                          [stage |-> "answered", body |-> requests[i].body,
                           response |-> r.response]]
  /\ UNCHANGED <<body, response, configured, now>>
  /\ UNCHANGED <<values, isSubmitting, errors, toast, editsInFlight>>
  /\ UNCHANGED <<optVars, dashVars>>

\* a resetForm that leaves the answers as they are
resetFormKeepsAnswers == values

\* resetForm: form.reset to the default values
resetForm == DefaultValues

\* response.ok
ResponseOk(r) == r.status >= 200 /\ r.status <= 299

\* onSubmit after await fetch and await response.json()
onSubmitResponse(i) ==
  /\ i \in 1..Len(requests)
  /\ requests[i].stage = "answered"
  /\ LET responseData == requests[i].response
     IN IF ResponseOk(responseData) /\ responseData.success
        THEN /\ toast' = "success"
             /\ values' = resetForm
             /\ errors' = {}
        ELSE /\ toast' = "error"
             /\ errors' = IF Has(responseData, "details")
                          THEN errors \cup DOMAIN responseData.details
                          ELSE errors
             /\ UNCHANGED values
  /\ isSubmitting' = FALSE
  /\ editsInFlight' = 0
  /\ requests' = RemoveAt(requests, i)
  /\ UNCHANGED <<apiVars, optVars, dashVars>>

\* onSubmit when fetch rejects: the catch block
onSubmitError(i) ==
  /\ i \in 1..Len(requests)
  /\ toast' = "error"
  /\ isSubmitting' = FALSE
  /\ editsInFlight' = 0
  /\ requests' = RemoveAt(requests, i)
  /\ UNCHANGED <<values, errors>>
  /\ UNCHANGED <<apiVars, optVars, dashVars>>

InitForm ==
  /\ body = EmptyObject
  /\ response = NoResponse
  /\ store = <<>>
  /\ now = 0
  /\ configured \in BOOLEAN
  /\ FormInit
  /\ OptionsLoaded
  /\ DashboardIdle

NextForm ==
  \/ \E field \in FormFields :
       \E v \in InputChoices(field) : onChange(field, v)
  \/ submitClick
  \/ handleKeyDown
  \/ \E i \in 1..MaxInFlight, db \in DbOutcomes : serverPOST(i, db)
  \/ \E i \in 1..MaxInFlight : onSubmitResponse(i)
  \/ \E i \in 1..MaxInFlight : onSubmitError(i)

SpecForm == InitForm /\ [][NextForm]_vars

----------------------------------------------------------------------------
(* InteractionsPage: the dropdown options *)

MaxRuns == 1
MaxQueryRetries == 1
MaxWholeRetries == 2

\* the lookup tables in the order fetchFormOptions queries them
Tables == <<"staff_members", "channels", "branches", "categories">>

\* the option list a table's rows are put in
ListOf(table) ==
  CASE table = "staff_members" -> "staffMembers"
    [] table = "channels"      -> "channels"
    [] table = "branches"      -> "branches"
    [] table = "categories"    -> "categories"

\* the lists an administrator has changed the tables to
NewerOptions ==
  [LoadedOptions EXCEPT !["channels"] = <<StrInStore, StrPhone, StrOther>>]

\* the names a query on a table can return when it returns rows
DataOf(table) == {LoadedOptions[ListOf(table)], NewerOptions[ListOf(table)]}

\* how a query can end: an error whose message or code makes it retryable,
\* another error, a thrown exception, no rows, or rows
QueryOutcomes == {"retryable", "error", "throws", "empty", "data"}

\* the cache with only the channels saved
PartialCache ==
  saveToStorage(EmptyObject, StorageKey("channels"), LoadedOptions["channels"])

InitialStorages == {EmptyObject, PartialCache, FullCache}

InitOptions ==
  /\ localStorage \in InitialStorages
  /\ options = [l \in ListNames |-> loadFromStorage(localStorage, StorageKey(l))]
  /\ hasCachedData = (\E l \in ListNames : Len(options[l]) > 0)
  /\ loadingOptions = ~hasCachedData
  /\ runs = <<[kind |-> "mount"]>>
  /\ refreshFailed = FALSE

\* a call of fetchFormOptions(retryCount) about to run its first query
NewFetch(retryCount) ==
  [kind |-> "fetch", retryCount |-> retryCount, q |-> 1, retry |-> 0,
   results |-> EmptyObject, hasAnySuccess |-> FALSE, hasNetworkError |-> FALSE]

\* a timer that calls fetchFormOptions(0) again, whatever the retry count
NewTimerSameCount(retryCount) == [kind |-> "timer", retryCount |-> 0]

\* a setTimeout that will call fetchFormOptions(retryCount)
NewTimer(retryCount) == [kind |-> "timer", retryCount |-> retryCount]

\* fetchFromDatabase(), run by the mount effect after its delay
fetchFromDatabase(i) ==
  /\ i \in 1..Len(runs)
  /\ runs[i].kind = "mount"
  /\ IF ~configured
     THEN /\ loadingOptions' = IF ~hasCachedData THEN FALSE ELSE loadingOptions
          /\ runs' = RemoveAt(runs, i)
          /\ refreshFailed' = TRUE
     ELSE \* setLoadingOptions(true) of fetchFormOptions follows at once
          /\ loadingOptions' = TRUE
          /\ runs' = [runs EXCEPT ![i] = NewFetch(0)]
          /\ UNCHANGED refreshFailed
  /\ UNCHANGED <<options, localStorage, hasCachedData>>
  /\ UNCHANGED <<apiVars, formVars, dashVars>>

\* a timer calls fetchFormOptions(retryCount): setLoadingOptions(true)
timerFires(i) ==
  /\ i \in 1..Len(runs)
  /\ runs[i].kind = "timer"
  /\ loadingOptions' = TRUE
  /\ runs' = [runs EXCEPT ![i] = NewFetch(runs[i].retryCount)]
  /\ UNCHANGED <<options, localStorage, hasCachedData, refreshFailed>>
  /\ UNCHANGED <<apiVars, formVars, dashVars>>

\* the query of fetchWithRetry is done with: its result is data, or null
QueryDone(run, data, isError, isSuccess) ==
  [run EXCEPT !.q = run.q + 1,
              !.retry = 0,
              !.results = IF isSuccess
                          THEN With(run.results, ListOf(Tables[run.q]), data)
                          ELSE run.results,
              !.hasAnySuccess = run.hasAnySuccess \/ isSuccess,
              !.hasNetworkError = run.hasNetworkError \/ isError]

\* fetchWithRetry when its query ends with outcome (and rows data)
fetchWithRetry(run, outcome, data) ==
  CASE outcome = "retryable" /\ run.retry < MaxQueryRetries ->
         [run EXCEPT !.retry = run.retry + 1]
    [] outcome = "retryable" /\ ~(run.retry < MaxQueryRetries) ->
         QueryDone(run, <<>>, TRUE, FALSE)
    [] outcome = "error" -> QueryDone(run, <<>>, TRUE, FALSE)
    [] outcome = "throws" -> QueryDone(run, <<>>, TRUE, FALSE)
    [] outcome = "empty" -> QueryDone(run, <<>>, FALSE, FALSE)
    [] outcome = "data" -> QueryDone(run, data, FALSE, Len(data) > 0)

\* a setter that puts every list a finished fetch asked for, rows or none
SetResultsOrEmpty(opts, results) ==
  [l \in ListNames |-> IF Has(results, l) THEN results[l] ELSE <<>>]

\* the lists after the results of a finished fetch are set
SetResults(opts, results) ==
  [l \in ListNames |-> IF Has(results, l) THEN results[l] ELSE opts[l]]

RECURSIVE SaveResults(_, _, _)
\* the cache after the results of a finished fetch are saved
SaveResults(ls, results, lists) ==
  IF lists = {} THEN ls
  ELSE LET l == CHOOSE x \in lists : TRUE
       IN SaveResults(IF Has(results, l)
                      THEN saveToStorage(ls, StorageKey(l), results[l])
                      ELSE ls,
                      results, lists \ {l})

\* fetchFormOptions: one query ends; after the fourth the lists are set and
\* saved, loading ends, and the whole operation is retried if nothing succeeded
fetchFormOptions(i, outcome, data) ==
  /\ i \in 1..Len(runs)
  /\ runs[i].kind = "fetch"
  /\ data \in DataOf(Tables[runs[i].q])
  /\ LET run == fetchWithRetry(runs[i], outcome, data)
     IN IF run.q <= Len(Tables)
        THEN /\ runs' = [runs EXCEPT ![i] = run]
             /\ UNCHANGED <<options, localStorage, loadingOptions, refreshFailed>>
        ELSE /\ options' = SetResults(options, run.results)
             /\ localStorage' = SaveResults(localStorage, run.results, ListNames)
             /\ loadingOptions' = FALSE
             /\ refreshFailed' = run.hasNetworkError
             /\ runs' = IF run.hasNetworkError /\ ~run.hasAnySuccess
                           /\ run.retryCount < MaxWholeRetries
                        THEN [runs EXCEPT ![i] = NewTimer(run.retryCount + 1)]
                        ELSE RemoveAt(runs, i)
  /\ UNCHANGED hasCachedData
  /\ UNCHANGED <<apiVars, formVars, dashVars>>

\* handleRefresh: the Refresh button
handleRefresh ==
  /\ Len(runs) < MaxRuns
  /\ loadingOptions' = FALSE
  /\ runs' = Append(runs, NewTimer(0))
  /\ UNCHANGED <<options, localStorage, hasCachedData, refreshFailed>>
  /\ UNCHANGED <<apiVars, formVars, dashVars>>

\* onSubmit calls checkAndUpdateFormOptions(true) after a saved submission;
\* the call compares with the lists of the render onSubmit belongs to
checkStarts ==
  /\ Len(runs) < MaxRuns
  /\ runs' = Append(runs, [kind |-> "check", lists |-> options])
  /\ UNCHANGED <<options, localStorage, hasCachedData, loadingOptions>>
  /\ UNCHANGED refreshFailed
  /\ UNCHANGED <<apiVars, formVars, dashVars>>

\* the rows of a query of checkAndUpdateFormOptions: data?.map(...) || []
CheckData(outcome, data) == IF outcome = "data" THEN data ELSE <<>>

\* checkAndUpdateFormOptions(true) when Promise.all settles; outs and data
\* give each table's outcome and rows
checkAndUpdateFormOptions(i, outs, data) ==
  /\ i \in 1..Len(runs)
  /\ runs[i].kind = "check"
  /\ LET failed == \E t \in DOMAIN outs : outs[t] \in {"retryable", "error", "throws"}
         got == [l \in ListNames |->
                   LET t == CHOOSE x \in DOMAIN outs : ListOf(x) = l
                   IN CheckData(outs[t], data[t])]
         hasChanged == \E l \in ListNames : got[l] # runs[i].lists[l]
         results == [l \in {x \in ListNames : Len(got[x]) > 0} |-> got[l]]
     IN /\ IF ~failed /\ hasChanged
           THEN /\ options' = SetResults(options, results)
                /\ localStorage' = SaveResults(localStorage, results, ListNames)
           ELSE UNCHANGED <<options, localStorage>>
        /\ refreshFailed' = failed
  /\ runs' = RemoveAt(runs, i)
  /\ UNCHANGED <<loadingOptions, hasCachedData>>
  /\ UNCHANGED <<apiVars, formVars, dashVars>>

TableSet == {Tables[n] : n \in 1..Len(Tables)}

AllData == UNION {DataOf(t) : t \in TableSet}

CheckOutcomes == [TableSet -> {"error", "empty", "data"}]

CheckRows == {[t \in TableSet |-> o[ListOf(t)]] : o \in {LoadedOptions, NewerOptions}}

InitOpt ==
  /\ body = EmptyObject
  /\ response = NoResponse
  /\ store = <<>>
  /\ now = 0
  /\ configured \in BOOLEAN
  /\ FormInit
  /\ InitOptions
  /\ DashboardIdle

NextOpt ==
  \/ \E i \in 1..MaxRuns : fetchFromDatabase(i)
  \/ \E i \in 1..MaxRuns : timerFires(i)
  \/ \E i \in 1..MaxRuns, outcome \in QueryOutcomes :
       \E data \in AllData : fetchFormOptions(i, outcome, data)
  \/ handleRefresh
  \/ checkStarts
  \/ \E i \in 1..MaxRuns, outs \in CheckOutcomes, data \in CheckRows :
       checkAndUpdateFormOptions(i, outs, data)

SpecOpt == InitOpt /\ [][NextOpt]_vars

----------------------------------------------------------------------------
(* Properties of the validator and the endpoint *)

Answered == response # NoResponse

\* POST rejected the body because interactionSchema.parse threw
ValidationFailed ==
  Answered /\ ~response.success /\ response.error[1] = "ZodError"

\* interactionSchema.parse returned: the body was accepted by the validator
ValidatorAccepted == Answered /\ ~ValidationFailed

\* the record accepted by the validator, as POST built it
AcceptedRecord == Payload(Pick(body, SchemaKeys), now)

\* a string property that is present and not the empty string
IsSet(r, k) == Has(r, k) /\ r[k] # StrEmpty

Rows == {store[i] : i \in 1..Len(store)}

\* C2 (as claimed): an accepted or stored record has a branch if and only if
\* its channel is "In-store".
C2_BranchIffInStore ==
  /\ ValidatorAccepted =>
       (NonBlank(AcceptedRecord, "branch")
          <=> AcceptedRecord["channel"] = StrInStore)
  /\ \A row \in Rows : NonBlank(row, "branch") <=> row["channel"] = StrInStore

\* C3 (as claimed): an accepted record has purchased defined if and only if
\* its channel is "In-store" or "WhatsApp".
C3_PurchasedIffChannel ==
  ValidatorAccepted =>
    (Has(AcceptedRecord, "purchased")
       <=> AcceptedRecord["channel"] \in {StrInStore, StrWhatsApp})

\* C4 (as claimed): an accepted record has outOfStock defined only if its
\* purchased is false.
C4_OutOfStockOnlyIfNotPurchased ==
  /\ ValidatorAccepted =>
       (Has(AcceptedRecord, "outOfStock") => PurchasedIs(AcceptedRecord, FALSE))
  /\ \A row \in Rows :
       Has(row, "out_of_stock") => (Has(row, "purchased") /\ row["purchased"] = FALSE)

\* C6 (as claimed): POST answers success only if the record was inserted,
\* and answers a failure whenever the gateway is not configured.
C6_SuccessOnlyIfInserted ==
  Answered =>
    /\ response.success => \E row \in Rows : row = InsertRow(response.data)
    /\ ~configured => ~response.success

\* C7 (as claimed): a validation failure is answered with details mapping
\* each offending field name to its message.
C7_ValidationDetails ==
  ValidationFailed =>
    /\ Has(response, "details")
    /\ DOMAIN response.details = {i.path : i \in interactionSchema(body).issues}

\* C8: the timestamp of the stored record and of the returned record is the
\* instant the server read from its clock, whatever timestamp the body had.
C8_ServerTimestamp ==
  Answered =>
    /\ \A row \in Rows : row["timestamp"] = toISOString(now)
    /\ response.success => response.data["timestamp"] = toISOString(now)
    /\ \A db \in DbOutcomes :
         POSTResult(body, now, configured, db)
           = POSTResult(Without(body, "timestamp"), now, configured, db)

C8_Witness ==
  /\ Answered /\ response.success /\ Len(store) = 1
  /\ Has(body, "timestamp") /\ body["timestamp"] # toISOString(now)
  /\ now > 0

AlwaysRequired == {"staffName", "channel", "category", "wantedItem"}

----------------------------------------------------------------------------
(* Properties of the form page *)

\* C1 (as claimed): no record stored through the form carries a branch
\* unless its channel is "In-store".
C1_NoStaleBranchStored ==
  \A row \in Rows : NonBlank(row, "branch") => row["channel"] = StrInStore

\* C5: at most one fetch of onSubmit is outstanding at any time.
C5_OneSubmissionInFlight == Len(requests) <= 1

\* a submission is outstanding while the answers on screen would pass
\* validation again, so a second click or Enter would send them
C5_Witness ==
  /\ Len(requests) = 1
  /\ requests[1].stage = "sent"
  /\ isSubmitting
  /\ interactionSchema(values).success
  /\ interactionSchema(values).success

----------------------------------------------------------------------------
(* Properties of the dropdown options *)

\* C9 (as claimed): once a refresh of the options has failed and nothing is
\* pending, no option list is empty and the form is not loading.
C9_ListsNonEmptyAfterFailedRefresh ==
  (refreshFailed /\ runs = <<>>) =>
    /\ \A l \in ListNames : Len(options[l]) > 0
    /\ ~loadingOptions

----------------------------------------------------------------------------
(* Properties of the validator: conditional fields *)

\* the free-text field that goes with the choice "Other" of a select
OtherOf(x) == IF x = "channel" THEN "otherChannel" ELSE "otherCategory"

\* the fields the issues of the validator on o are attributed to
IssuePaths(o) == {i.path : i \in interactionSchema(o).issues}

\* C11: for X in {channel, category}, a body with X = "Other" and otherX
\* absent or empty is rejected, and with X # "Other" the absence of otherX
\* gives no issue on otherX.
C11_OtherRequiredIffOther ==
  Answered =>
    \A x \in {"channel", "category"} :
      /\ (Has(body, x) /\ body[x] = StrOther /\ ~IsSet(body, OtherOf(x)))
           => ValidationFailed
      /\ (Has(body, x) /\ body[x] # StrOther /\ ~Has(body, OtherOf(x)))
           => OtherOf(x) \notin IssuePaths(body)

\* a body that is rejected for its missing otherChannel alone
C11_Witness ==
  /\ ValidationFailed
  /\ Has(body, "channel") /\ body["channel"] = StrOther
  /\ ~Has(body, "otherChannel")
  /\ IssuePaths(body) = {"otherChannel"}

\* C12 (as claimed): a required otherChannel or otherCategory of length
\* 1..60 gives no issue on it, length 61 and (when required) length 0 are
\* rejected; a wantedItem of length 1..120 gives no issue on it, length 0 and
\* length 121 are rejected.
C12_LengthBounds ==
  Answered =>
    /\ \A x \in {"channel", "category"} :
         LET other == OtherOf(x)
             required == Has(body, x) /\ body[x] = StrOther
         IN Has(body, other) =>
              /\ (required /\ Len(body[other]) \in 1..MaxOther)
                   => other \notin IssuePaths(body)
              /\ Len(body[other]) = MaxOther + 1 => ValidationFailed
              /\ (required /\ Len(body[other]) = 0) => ValidationFailed
    /\ Has(body, "wantedItem") =>
         /\ Len(body["wantedItem"]) \in MinWanted..MaxWanted
              => "wantedItem" \notin IssuePaths(body)
         /\ Len(body["wantedItem"]) \in {0, MaxWanted + 1} => ValidationFailed

\* C13 (as claimed): a missing conditionally required field gives an issue
\* on that field: In-store without branch on branch, In-store or WhatsApp
\* without purchased on purchased, purchased = false without outOfStock on
\* outOfStock.
C13_MissingFieldAttributed ==
  Answered =>
    /\ (ChannelIs(body, StrInStore) /\ ~Has(body, "branch"))
         => "branch" \in IssuePaths(body)
    /\ ((ChannelIs(body, StrInStore) \/ ChannelIs(body, StrWhatsApp))
          /\ ~Has(body, "purchased"))
         => "purchased" \in IssuePaths(body)
    /\ (PurchasedIs(body, FALSE) /\ ~Has(body, "outOfStock"))
         => "outOfStock" \in IssuePaths(body)

----------------------------------------------------------------------------
(* Properties of the validator: option values *)

\* the option values of a select, of those the bodies are built from
Enumerated(k) ==
  CASE k = "staffName" -> {StrShelly}
    [] k = "channel"   -> {StrInStore, StrPhone, StrWhatsApp, StrOther}
    [] k = "branch"    -> {StrBridgetown}
    [] k = "category"  -> {StrGames, StrOther}

\* C14 (as claimed): an accepted or stored record has a staffName, channel,
\* category and (if it has one) branch that is one of the option values.
C14_EnumValuesOnly ==
  /\ ValidatorAccepted =>
       \A k \in {"staffName", "channel", "category", "branch"} :
         Has(AcceptedRecord, k) => AcceptedRecord[k] \in Enumerated(k)
  /\ \A row \in Rows :
       \A k \in {"staffName", "channel", "category", "branch"} :
         Has(row, Column(k)) => row[Column(k)] \in Enumerated(k)

----------------------------------------------------------------------------
(* The fields required and shown for given answers *)

ConditionalFields ==
  {"otherChannel", "branch", "otherCategory", "purchased", "outOfStock"}

\* the test under which a refinement demands a conditional field
RequiredWhen(d, field) ==
  CASE field = "otherChannel"  -> ChannelIs(d, StrOther)
    [] field = "branch"        -> ChannelIs(d, StrInStore)
    [] field = "otherCategory" -> CategoryIs(d, StrOther)
    [] field = "purchased"     -> ChannelIs(d, StrInStore) \/ ChannelIs(d, StrWhatsApp)
    [] field = "outOfStock"    -> PurchasedIs(d, FALSE)

\* C15 (as claimed): a conditional field that is present in the body while
\* it is not required never gets a validation issue.
C15_NonRequiredAcceptedSilently ==
  Answered =>
    \A f \in ConditionalFields :
      (Has(body, f) /\ ~RequiredWhen(body, f)) => f \notin IssuePaths(body)

\* the form while the user only changes answers and submits nothing
NextAnswers ==
  \E field \in FormFields : \E v \in InputChoices(field) : onChange(field, v)

\* option lists with every channel and category the rules name
AllOptions ==
  [LoadedOptions EXCEPT
     !["channels"] = <<StrInStore, StrWhatsApp, StrPhone, StrOther>>,
     !["categories"] = <<StrGames, StrOther>>]

\* the cache after the lists opts were saved
CacheOf(opts) ==
  [k \in {StorageKey(l) : l \in ListNames} \cup {LastUpdatedKey} |->
     IF k = LastUpdatedKey THEN TRUE
     ELSE opts[CHOOSE l \in ListNames : StorageKey(l) = k]]

InitAnswers ==
  /\ body = EmptyObject
  /\ response = NoResponse
  /\ store = <<>>
  /\ now = 0
  /\ configured = TRUE
  /\ FormInit
  /\ options = AllOptions
  /\ loadingOptions = FALSE
  /\ localStorage = CacheOf(AllOptions)
  /\ hasCachedData = TRUE
  /\ runs = <<>>
  /\ refreshFailed = FALSE
  /\ DashboardIdle

SpecAnswers == InitAnswers /\ [][NextAnswers]_vars

\* the answers v with the answer to field taken away
Emptied(v, field) ==
  IF field \in {"purchased", "outOfStock"}
  THEN Without(v, field)
  ELSE With(v, field, StrEmpty)

\* the fields the validator demands of the answers v: those whose missing
\* answer it reports on that field
RequiredSet(v) == {f \in SchemaKeys : f \in IssuePaths(Emptied(v, f))}

\* the fields the page renders for the answers v
ShownSet(v) == {f \in FormFields : FieldVisible(v, f)}

\* the answers that agree with v on channel, category and purchased and have
\* every other answer at its default
SameChoices(v) ==
  [k \in DOMAIN DefaultValues \cup ({"purchased"} \cap DOMAIN v) |->
     IF k \in {"channel", "category", "purchased"} THEN v[k] ELSE DefaultValues[k]]

C17_OutOfStockOnlyWithPurchased ==
  /\ "outOfStock" \in ShownSet(values) <=> PurchasedIs(values, FALSE)
  /\ "outOfStock" \in RequiredSet(values) <=> PurchasedIs(values, FALSE)
  /\ "outOfStock" \in ShownSet(values) =>
       /\ "purchased" \in ShownSet(values)
       /\ values["channel"] \in {StrInStore, StrWhatsApp}

----------------------------------------------------------------------------
(* Properties of the form page: submission *)

\* the endpoint rejected the request because interactionSchema.parse threw
RejectedByServerValidation(r) ==
  /\ r.stage = "answered"
  /\ ~r.response.success
  /\ r.response.error[1] = "ZodError"

FairForm == \A i \in 1..MaxInFlight : WF_vars(onSubmitResponse(i))

SpecFormLive == SpecForm /\ FairForm

\* C19 (as claimed): a submission always ends: isSubmitting returns to false
\* even if the response never arrives.
C19_SubmissionEnds == isSubmitting ~> ~isSubmitting

\* the answers that differ between v and w
ChangedAnswers(v, w) ==
  {k \in DOMAIN v \cup DOMAIN w :
     ~(k \in DOMAIN v /\ k \in DOMAIN w /\ v[k] = w[k])}

\* C20: when a submission ends with the success toast, the server had
\* answered it with success and the answers become the defaults; when it ends
\* otherwise, every answer is unchanged; any other step changes at most the
\* one answer the user edits.
C20_ResetOnlyAfterSuccess ==
  [][ /\ (Len(requests') < Len(requests) /\ toast' = "success") =>
           /\ values' = DefaultValues
           /\ \E i \in 1..Len(requests) :
                /\ requests' = RemoveAt(requests, i)
                /\ requests[i].stage = "answered"
                /\ requests[i].response.success
      /\ (Len(requests') < Len(requests) /\ toast' # "success") =>
           values' = values
      /\ Len(requests') >= Len(requests) =>
           Cardinality(ChangedAnswers(values, values')) <= 1
    ]_vars

\* a saved submission has ended and the answers are the defaults again
C20_Witness ==
  /\ toast = "success"
  /\ values = DefaultValues
  /\ requests = <<>>
  /\ ~isSubmitting
  /\ Len(store) = 1

----------------------------------------------------------------------------
(* src/contexts/AuthContext.tsx: AuthProvider *)

\* String.prototype.toLowerCase, on the letters that occur in the emails
LowerChar(c) == CASE c = "A" -> "a" [] c = "B" -> "b" [] OTHER -> c

toLowerCase(s) == [i \in DOMAIN s |-> LowerChar(s[i])]

\* user.email.toLowerCase().trim()
NormalizedEmail(e) == Trim(toLowerCase(e))

\* the rows .from('admin_users').select('email') returns; email is NOT NULL
AdminUsers == {[email |-> <<"a", " ">>]}

\* the users supabase.auth knows: an admin whose email differs from the row
\* in case and spaces only, a user who is no admin, a user without an email
UserAdmin == [id |-> 1, email |-> <<"A">>]
UserOther == [id |-> 2, email |-> <<"b">>]
UserNoEmail == [id |-> 3]
Users == {UserAdmin, UserOther, UserNoEmail}

\* the sessions supabase.auth may hold
Sessions == {[user |-> u] : u \in Users}

\* session?.user ?? null
UserOf(s) == IF s = Null THEN Null ELSE s.user

\* !user || !user.email
NoEmail(u) == u = Null \/ ~Has(u, "email") \/ u["email"] = StrEmpty

\* a check that takes any row of admin_users for a match
isAdminUserAnyEmail(u, data) == data # {}

\* data.some(admin => admin.email?.toLowerCase().trim() === userEmail)
isAdminUser(u, data) ==
  \E admin \in data : NormalizedEmail(admin.email) = NormalizedEmail(u.email)

\* the most async functions of the provider that are suspended at a time
MaxCalls == 2

\* an async function suspended inside checkAdminRole(u): fn is the function
\* that awaits checkAdminRole, stage the await checkAdminRole is suspended at
CheckCall(fn, u) == [fn |-> fn, stage |-> "getSession", user |-> u]

\* what the caller of checkAdminRole does once it returns: initializeAuth
\* runs its finally block, the auth listener calls setLoading(false),
\* updatePassword returns
LoadingAfter(fn) == IF fn = "updatePassword" THEN loading ELSE FALSE

\* initializeAuth from the point supabase.auth.getSession() settles;
\* outcome "ok" is { data: { session } }, "error" is { error }, "throws" is
\* a rejected promise
initializeAuth(i, outcome) ==
  /\ i \in 1..Len(calls)
  /\ calls[i].stage = "initialSession"
  /\ IF outcome = "ok"
     THEN /\ session' = authSession
          /\ user' = UserOf(authSession)
          /\ sessionReady' = TRUE
          /\ IF NoEmail(UserOf(authSession))
             THEN /\ isAdmin' = FALSE
                  /\ loading' = FALSE
                  /\ calls' = RemoveAt(calls, i)
             ELSE /\ calls' = [calls EXCEPT ![i] =
                                 CheckCall("initializeAuth", UserOf(authSession))]
                  /\ UNCHANGED <<isAdmin, loading>>
     ELSE /\ sessionReady' = TRUE
          /\ loading' = FALSE
          /\ calls' = RemoveAt(calls, i)
          /\ UNCHANGED <<session, user, isAdmin>>
  /\ UNCHANGED <<authSession, timeoutFired>>
  /\ UNCHANGED <<apiVars, formVars, optVars, adminVars>>

\* checkAdminRole from the point its supabase.auth.getSession() settles
checkAdminRoleSession(i, outcome) ==
  /\ i \in 1..Len(calls)
  /\ calls[i].stage = "getSession"
  /\ IF outcome = "ok" /\ authSession # Null
     THEN /\ calls' = [calls EXCEPT ![i].stage = "query"]
          /\ UNCHANGED <<isAdmin, loading>>
     ELSE /\ isAdmin' = FALSE
          /\ loading' = LoadingAfter(calls[i].fn)
          /\ calls' = RemoveAt(calls, i)
  /\ UNCHANGED <<user, session, sessionReady, authSession, timeoutFired>>
  /\ UNCHANGED <<apiVars, formVars, optVars, adminVars>>

\* checkAdminRole from the point its admin_users query settles; outcome
\* "data" is { data }, "error" is { error }, "null" is { data: null },
\* "throws" is a rejected promise
checkAdminRole(i, outcome) ==
  /\ i \in 1..Len(calls)
  /\ calls[i].stage = "query"
  /\ isAdmin' = IF outcome = "data"
                THEN isAdminUser(calls[i].user, AdminUsers)
                ELSE FALSE
  /\ loading' = LoadingAfter(calls[i].fn)
  /\ calls' = RemoveAt(calls, i)
  /\ UNCHANGED <<user, session, sessionReady, authSession, timeoutFired>>
  /\ UNCHANGED <<apiVars, formVars, optVars, adminVars>>

\* the events of supabase.auth the listener is called with, and the session
\* each may carry
AuthEvents == {"SIGNED_IN", "SIGNED_OUT", "TOKEN_REFRESHED", "PASSWORD_RECOVERY"}

EventSessions(event) ==
  CASE event = "SIGNED_OUT" -> {Null}
    [] event = "TOKEN_REFRESHED" -> {authSession} \ {Null}
    [] OTHER -> Sessions

\* the listener of supabase.auth.onAuthStateChange, up to its first await
onAuthStateChange(event, s) ==
  /\ s \in EventSessions(event)
  /\ authSession' = s
  /\ session' = s
  /\ user' = UserOf(s)
  /\ sessionReady' = TRUE
  /\ IF event = "PASSWORD_RECOVERY" \/ NoEmail(UserOf(s))
     THEN /\ isAdmin' = FALSE
          /\ loading' = FALSE
          /\ UNCHANGED calls
     ELSE /\ Len(calls) < MaxCalls
          /\ calls' = Append(calls, CheckCall("onAuthStateChange", UserOf(s)))
          /\ UNCHANGED <<isAdmin, loading>>
  /\ UNCHANGED timeoutFired
  /\ UNCHANGED <<apiVars, formVars, optVars, adminVars>>

\* updatePassword from the point supabase.auth.updateUser settles without
\* an error: data.user is the user of the session
updatePassword ==
  /\ authSession # Null
  /\ IF NoEmail(authSession.user)
     THEN /\ isAdmin' = FALSE
          /\ UNCHANGED calls
     ELSE /\ Len(calls) < MaxCalls
          /\ calls' = Append(calls, CheckCall("updatePassword", authSession.user))
          /\ UNCHANGED isAdmin
  /\ UNCHANGED <<user, session, loading, sessionReady, authSession, timeoutFired>>
  /\ UNCHANGED <<apiVars, formVars, optVars, adminVars>>

\* a safety timeout that marks the session ready and leaves loading alone
safetyTimeoutKeepsLoading ==
  /\ ~timeoutFired
  /\ timeoutFired' = TRUE
  /\ sessionReady' = TRUE
  /\ UNCHANGED <<user, session, isAdmin, authSession, calls, loading>>
  /\ UNCHANGED <<apiVars, formVars, optVars, adminVars>>

\* the callback of the 10 second safety timeout
safetyTimeout ==
  /\ ~timeoutFired
  /\ timeoutFired' = TRUE
  /\ loading' = FALSE
  /\ sessionReady' = TRUE
  /\ UNCHANGED <<user, session, isAdmin, authSession, calls>>
  /\ UNCHANGED <<apiVars, formVars, optVars, adminVars>>

InitAuth ==
  /\ body = EmptyObject
  /\ response = NoResponse
  /\ store = <<>>
  /\ now = 0
  /\ configured = TRUE
  /\ FormInit
  /\ OptionsLoaded
  /\ optionTable = SeededTable
  /\ AdminInit
  /\ AuthInit
  /\ authSession \in {Null} \cup Sessions

InitOutcomes == {"ok", "error", "throws"}
SessionOutcomes == {"ok", "throws"}
AdminQueryOutcomes == {"data", "error", "null", "throws"}

NextAuth ==
  \/ \E i \in 1..MaxCalls, outcome \in InitOutcomes : initializeAuth(i, outcome)
  \/ \E i \in 1..MaxCalls, outcome \in SessionOutcomes :
       checkAdminRoleSession(i, outcome)
  \/ \E i \in 1..MaxCalls, outcome \in AdminQueryOutcomes :
       checkAdminRole(i, outcome)
  \/ \E event \in AuthEvents : \E s \in EventSessions(event) :
       onAuthStateChange(event, s)
  \/ updatePassword
  \/ safetyTimeout

SpecAuth == InitAuth /\ [][NextAuth]_vars

----------------------------------------------------------------------------
(* The admin dashboard: InteractionsTab and FormSettingsTab *)

\* the most rows a lookup table is given
MaxOptions == 3

\* a row of a lookup table that was deleted: its BIGSERIAL id is not reused
Deleted == [deleted |-> TRUE]

\* the ids of the rows of lookup table t
LiveIds(t) == {id \in 1..Len(t) : t[id] # Deleted}

\* a FormOption: the row id of lookup table t, without its name and its
\* active flag, which no handler reads
FormOption(t, id) == [id |-> id, display_order |-> t[id].display_order]

\* .select("*").order("display_order", { ascending: true }): every order of
\* the rows that ascends in display_order; rows of equal display_order come
\* in either order
OrderedRows(t) ==
  {q \in [1..Cardinality(LiveIds(t)) -> {FormOption(t, id) : id \in LiveIds(t)}] :
     /\ \A i, j \in DOMAIN q : i < j => /\ q[i].id # q[j].id
                                        /\ q[i].display_order <= q[j].display_order}

\* the lists fetchOptions may leave in options: the rows it read, or, when
\* the query fails, the list as it was
FetchedOptions(t, outcome) ==
  IF outcome = "data" THEN OrderedRows(t) ELSE {tabOptions}

FetchOutcomes == {"data", "error"}

\* the outcomes of an insert, update or delete that is awaited
WriteOutcomes == {"ok", "error"}

\* Math.max(0, ...options.map((o) => o.display_order))
MaxOf(S) == CHOOSE n \in S : \A m \in S : m <= n

maxOrder(opts) == MaxOf({0} \cup {opts[i].display_order : i \in DOMAIN opts})

\* fetchOptions, run by the effect of the tab
fetchOptions ==
  /\ tabOptions' \in FetchedOptions(optionTable, "data")
  /\ UNCHANGED <<optionTable, interactions>>
  /\ UNCHANGED <<apiVars, formVars, optVars, authVars>>

\* handleAdd with a name that is not blank, and the fetchOptions it starts
handleAdd(outcome, fetched) ==
  /\ Len(optionTable) < MaxOptions
  /\ IF outcome = "ok"
     THEN /\ optionTable' = Append(optionTable,
               [display_order |-> maxOrder(tabOptions) + 1])
          /\ tabOptions' \in FetchedOptions(optionTable', fetched)
     ELSE UNCHANGED <<optionTable, tabOptions>>
  /\ UNCHANGED interactions
  /\ UNCHANGED <<apiVars, formVars, optVars, authVars>>

\* handleUpdate(id, { name }) and handleUpdate(id, { active }), and the
\* fetchOptions they start: display_order is not among the updates
handleUpdate(id, outcome, fetched) ==
  /\ \E i \in DOMAIN tabOptions : tabOptions[i].id = id
  /\ IF outcome = "ok"
     THEN /\ tabOptions' \in FetchedOptions(optionTable, fetched)
          /\ UNCHANGED optionTable
     ELSE UNCHANGED <<optionTable, tabOptions>>
  /\ UNCHANGED interactions
  /\ UNCHANGED <<apiVars, formVars, optVars, authVars>>

\* handleDelete(id) once confirmed, and the fetchOptions it starts
handleDelete(id, outcome, fetched) ==
  /\ \E i \in DOMAIN tabOptions : tabOptions[i].id = id
  /\ IF outcome = "ok"
     THEN /\ optionTable' = IF id \in LiveIds(optionTable)
                            THEN [optionTable EXCEPT ![id] = Deleted]
                            ELSE optionTable
          /\ tabOptions' \in FetchedOptions(optionTable', fetched)
     ELSE UNCHANGED <<optionTable, tabOptions>>
  /\ UNCHANGED interactions
  /\ UNCHANGED <<apiVars, formVars, optVars, authVars>>

\* .update({ display_order }).eq("id", id) on table t
UpdateOrder(t, id, order, outcome) ==
  IF outcome = "ok" /\ id \in LiveIds(t)
  THEN [t EXCEPT ![id].display_order = order]
  ELSE t

\* options.findIndex((o) => o.id === id), counted from 1
findIndex(opts, id) == CHOOSE i \in DOMAIN opts : opts[i].id = id

\* the table after the two updates of handleMove: neither result is looked at
MovedTable(t, opts, id, direction, outcome1, outcome2) ==
  LET index == findIndex(opts, id)
      newIndex == IF direction = "up" THEN index - 1 ELSE index + 1
      item1 == opts[index]
      item2 == opts[newIndex]
  IN UpdateOrder(UpdateOrder(t, item1.id, item2.display_order, outcome1),
                 item2.id, item1.display_order, outcome2)

\* handleMove(id, direction), and the fetchOptions it starts
handleMove(id, direction, outcome1, outcome2, fetched) ==
  /\ \E i \in DOMAIN tabOptions : tabOptions[i].id = id
  /\ IF \/ direction = "up" /\ findIndex(tabOptions, id) = 1
        \/ direction = "down" /\ findIndex(tabOptions, id) = Len(tabOptions)
     THEN UNCHANGED <<optionTable, tabOptions>>
     ELSE /\ optionTable' = MovedTable(optionTable, tabOptions, id, direction,
                                       outcome1, outcome2)
          /\ tabOptions' \in FetchedOptions(optionTable', fetched)
  /\ UNCHANGED interactions
  /\ UNCHANGED <<apiVars, formVars, optVars, authVars>>

\* the bodies the form pages in use send to the endpoint
SubmittedBodies ==
  {[staffName |-> StrShelly, channel |-> StrInStore, branch |-> StrBridgetown,
    category |-> StrGames, wantedItem |-> Rep("x", 1), purchased |-> FALSE,
    outOfStock |-> TRUE],
   [channel |-> StrPhone, category |-> StrGames, wantedItem |-> Rep("x", 1)]}

\* the most rows the interactions table is given while the dashboard is used
MaxRecords == 2

\* the endpoint handles the request of a form page
submission(o, db) ==
  /\ store' = insert(store, POSTResult(o, now, configured, db).rows)
  /\ Len(store') <= MaxRecords
  /\ UNCHANGED <<body, response, now, configured>>
  /\ UNCHANGED <<formVars, optVars, dashVars>>

\* Reverse of a sequence
Reverse(q) == [i \in 1..Len(q) |-> q[Len(q) + 1 - i]]

\* fetchInteractions once a session is there: .select('*').order('created_at',
\* { ascending: false }); a failed query leaves the list as it was
fetchInteractions(outcome) ==
  /\ interactions' = IF outcome = "data" THEN Reverse(store) ELSE interactions
  /\ UNCHANGED <<optionTable, tabOptions>>
  /\ UNCHANGED <<apiVars, formVars, optVars, authVars>>

InitAdmin ==
  /\ body = EmptyObject
  /\ response = NoResponse
  /\ store = <<>>
  /\ now = 0
  /\ configured = TRUE
  /\ FormInit
  /\ OptionsLoaded
  /\ DashboardIdle

NextAdmin ==
  \/ \E o \in SubmittedBodies, db \in DbOutcomes : submission(o, db)
  \/ \E outcome \in FetchOutcomes : fetchInteractions(outcome)
  \/ fetchOptions
  \/ \E outcome \in WriteOutcomes, fetched \in FetchOutcomes :
       handleAdd(outcome, fetched)
  \/ \E id \in 1..MaxOptions, outcome \in WriteOutcomes,
        fetched \in FetchOutcomes : handleUpdate(id, outcome, fetched)
  \/ \E id \in 1..MaxOptions, outcome \in WriteOutcomes,
        fetched \in FetchOutcomes : handleDelete(id, outcome, fetched)
  \/ \E id \in 1..MaxOptions, direction \in {"up", "down"},
        outcome1 \in WriteOutcomes, outcome2 \in WriteOutcomes,
        fetched \in FetchOutcomes :
       handleMove(id, direction, outcome1, outcome2, fetched)

SpecAdmin == InitAdmin /\ [][NextAdmin]_vars

----------------------------------------------------------------------------
(* Properties of the admin dashboard *)

\* the rows the endpoint may insert at the instant the clock reads: one per
\* body that interactionSchema accepts
ValidatedRows ==
  {InsertRow(Payload(interactionSchema(o).data, now)) :
     o \in {b \in SubmittedBodies : interactionSchema(b).success}}

\* C21: over form submissions and dashboard operations the interactions table
\* only grows: every step keeps the rows it had, in place and unchanged, and
\* every row it adds is a newly validated record
C21_StoreOnlyGrows ==
  [][/\ Len(store') >= Len(store)
     /\ \A i \in 1..Len(store) : store'[i] = store[i]
     /\ \A i \in (Len(store) + 1)..Len(store') : store'[i] \in ValidatedRows]_vars

\* rows were accepted, the dashboard has listed them, and the settings tab
\* has changed its lookup table
C21_Witness ==
  /\ Len(store) >= 2
  /\ Len(interactions) >= 2
  /\ optionTable # SeededTable

----------------------------------------------------------------------------
(* Scenario A of the validator *)

\* the answer sets of scenario A: a channel that is none of In-store,
\* WhatsApp and Other, a category that is not Other, a wantedItem of 1..120
\* characters, and no branch, purchased or outOfStock
ScenarioA(o) ==
  /\ Has(o, "channel") /\ o["channel"] \notin {StrInStore, StrWhatsApp, StrOther}
  /\ Has(o, "category") /\ o["category"] # StrOther
  /\ Has(o, "wantedItem")
  /\ Len(o["wantedItem"]) \in MinWanted..MaxWanted
  /\ ~Has(o, "branch") /\ ~Has(o, "purchased") /\ ~Has(o, "outOfStock")

----------------------------------------------------------------------------
(* src/components/ProtectedRoute.tsx *)

\* a ProtectedRoute that does not look at isAdmin
ProtectedRouteForAnyUser(u, isLoading, admin) ==
  IF isLoading THEN "Loading"
  ELSE IF u = Null THEN "LoginForm"
  ELSE "children"

\* what ProtectedRoute renders for the values useAuth() gives it
ProtectedRoute(u, isLoading, admin) ==
  IF isLoading THEN "Loading"
  ELSE IF u = Null THEN "LoginForm"
  ELSE IF ~admin THEN "AccessDenied"
  ELSE "children"

\* what the admin page shows
Rendered == ProtectedRoute(user, loading, isAdmin)

\* C23 (as claimed): the children are rendered only if loading has finished,
\* a user is signed in and isAdmin is true; with no signed-in user the login
\* form is rendered
C23_LoginRequired ==
  /\ Rendered = "children" => (~loading /\ user # Null /\ isAdmin)
  /\ user = Null => Rendered = "LoginForm"

\* C23 (amended): the children are rendered only if loading has finished, a
\* user is signed in and isAdmin is true; with no signed-in user the login
\* form is rendered once loading has finished, and the loading screen before
C23_LoginRequiredAfterLoading ==
  /\ Rendered = "children" => (~loading /\ user # Null /\ isAdmin)
  /\ user = Null => Rendered = (IF loading THEN "Loading" ELSE "LoginForm")
  /\ (user # Null /\ ~loading /\ ~isAdmin) => Rendered = "AccessDenied"

\* the admin content is rendered for the admin
C23_Witness ==
  /\ Rendered = "children"
  /\ user = UserAdmin

----------------------------------------------------------------------------
(* Properties of the AuthProvider *)

\* the normalized email of u is the normalized email of a row of admin_users
InAdminUsers(u) ==
  /\ ~NoEmail(u)
  /\ \E admin \in AdminUsers :
       NormalizedEmail(admin.email) = NormalizedEmail(u.email)

\* C24 (as claimed): whenever isAdmin is true while a user is signed in, the
\* normalized email of that user is in admin_users, so the admin content is
\* never rendered for a user who is no admin
C24_AdminOnlyForAdminUsers ==
  /\ (isAdmin /\ user # Null) => InAdminUsers(user)
  /\ Rendered = "children" => InAdminUsers(user)

----------------------------------------------------------------------------
(* The stock answer, from the form to the admin views *)

\* the value of the RadioGroupItem of "Was the item in stock?" that carries
\* the label
StockRadioValue(label) == IF label = "Yes" THEN "true" ELSE "false"

\* onValueChange={(value) => field.onChange(value === "true")}
onValueChange(value) == value = "true"

\* the cell of the "In Stock" column of the admin table for a row
InStockCell(interaction) ==
  IF ~Has(interaction, "out_of_stock") THEN "-"
  ELSE IF interaction["out_of_stock"] = TRUE THEN "No"
  ELSE "Yes"

\* the last cell exportToCSV writes for a row
exportToCSV(i) ==
  IF ~Has(i, "out_of_stock") THEN ""
  ELSE IF i["out_of_stock"] = TRUE THEN "No"
  ELSE "Yes"

\* C25 (as claimed): for every stored record with purchased = false, the
\* admin table's "In Stock" cell and the exported CSV cell are "Yes" exactly
\* when the staff member answered "Yes" to "Was the item in stock?"
C25_StockAnswerRoundTrips ==
  \A row \in Rows : \A label \in {"Yes", "No"} :
    (/\ Has(row, "purchased") /\ row["purchased"] = FALSE
     /\ Has(row, "out_of_stock")
     /\ row["out_of_stock"] = onValueChange(StockRadioValue(label)))
    => /\ InStockCell(row) = "Yes" <=> label = "Yes"
       /\ exportToCSV(row) = "Yes" <=> label = "Yes"

----------------------------------------------------------------------------
(* One call of fetchFormOptions(0) *)

\* handleRefresh has run on a page whose lists came from the cache: its
\* timer is about to call fetchFormOptions(0), and nothing else is started
InitFetch ==
  /\ body = EmptyObject
  /\ response = NoResponse
  /\ store = <<>>
  /\ now = 0
  /\ configured = TRUE
  /\ FormInit
  /\ localStorage \in InitialStorages
  /\ options = [l \in ListNames |-> loadFromStorage(localStorage, StorageKey(l))]
  /\ hasCachedData = (\E l \in ListNames : Len(options[l]) > 0)
  /\ loadingOptions = FALSE
  /\ runs = <<NewTimer(0)>>
  /\ refreshFailed = FALSE
  /\ DashboardIdle

NextFetch ==
  \/ timerFires(1)
  \/ \E outcome \in QueryOutcomes :
       \E data \in AllData : fetchFormOptions(1, outcome, data)

\* every timer fires and every lookup query returns
FairFetch ==
  /\ WF_vars(timerFires(1))
  /\ WF_vars(\E outcome \in QueryOutcomes :
               \E data \in AllData : fetchFormOptions(1, outcome, data))

SpecFetch == InitFetch /\ [][NextFetch]_vars /\ FairFetch

\* the call is in one of its at most 3 runs of the four queries, and in its
\* first or second execution of the query it is at
WithinRetries(run) ==
  /\ run.retryCount \in 0..MaxWholeRetries
  /\ run.kind = "fetch" => /\ run.retry \in 0..MaxQueryRetries
                           /\ run.q \in 1..Len(Tables)

\* C26: provided every lookup query returns, a call fetchFormOptions(0) ends
\* with loadingOptions = false, after at most 3 runs of the four queries
\* (retryCount 0, 1, 2), each run executing each query at most twice
C26_FetchTerminates ==
  /\ [](\A i \in 1..Len(runs) : WithinRetries(runs[i]))
  /\ <>[](runs = <<>> /\ ~loadingOptions)

\* the call is in its third run, at its last query, for the second time
C26_Witness ==
  /\ Len(runs) = 1
  /\ runs[1].kind = "fetch"
  /\ runs[1].retryCount = MaxWholeRetries
  /\ runs[1].q = Len(Tables)
  /\ runs[1].retry = MaxQueryRetries

----------------------------------------------------------------------------
(* Refreshes of the option lists *)

\* the cache entry of list l in ls, [] when there is none
Cached(ls, l) == loadFromStorage(ls, StorageKey(l))

\* C27: no refresh empties a populated list: in every step of fetches, checks
\* and refreshes a list that was non-empty stays non-empty, and a cache entry
\* that is written is written with a non-empty list
C27_NoRefreshEmptiesAList ==
  [][\A l \in ListNames :
       /\ Len(options[l]) > 0 => Len(options'[l]) > 0
       /\ Cached(localStorage', l) # Cached(localStorage, l)
            => Len(Cached(localStorage', l)) > 0
       /\ Has(localStorage, StorageKey(l)) => Has(localStorage', StorageKey(l))]_vars

\* a refresh has replaced a populated list and its cache entry by newer rows
C27_Witness ==
  /\ options["channels"] = NewerOptions["channels"]
  /\ Cached(localStorage, "channels") = NewerOptions["channels"]
  /\ runs = <<>>

----------------------------------------------------------------------------
(* checkAdminRole fails closed *)

\* the calls of checkAdminRole that are suspended at a stage
CallsAt(stage) == {i \in 1..Len(calls) : calls[i].stage = stage}

\* C28: checkAdminRole fails closed.  A user without an email, a missing
\* session, a query that ends in an error, in null data or in an exception
\* each set isAdmin to false, and isAdmin becomes true only when the query of
\* a call succeeds and the normalized email of the user the call is for is
\* the normalized email of a row of admin_users
C28_FailsClosed ==
  [][/\ \A i \in CallsAt("initialSession") :
          (initializeAuth(i, "ok") /\ NoEmail(UserOf(authSession))) => ~isAdmin'
     /\ \A s \in Sessions :
          (onAuthStateChange("SIGNED_IN", s) /\ NoEmail(s.user)) => ~isAdmin'
     /\ \A i \in CallsAt("getSession") :
          /\ checkAdminRoleSession(i, "throws") => ~isAdmin'
          /\ (checkAdminRoleSession(i, "ok") /\ authSession = Null) => ~isAdmin'
     /\ \A i \in CallsAt("query") : \A outcome \in {"error", "null", "throws"} :
          checkAdminRole(i, outcome) => ~isAdmin'
     /\ (isAdmin' /\ ~isAdmin) =>
          \E i \in CallsAt("query") :
             /\ checkAdminRole(i, "data")
             /\ InAdminUsers(calls[i].user)]_vars

\* the admin, whose email differs from the row of admin_users in case and
\* spaces, has been checked and isAdmin is true
C28_Witness ==
  /\ isAdmin
  /\ user = UserAdmin
  /\ UserAdmin.email \notin {admin.email : admin \in AdminUsers}
  /\ calls = <<>>

----------------------------------------------------------------------------
(* The loading flag of the AuthProvider *)

\* the safety timeout fires 10 seconds after the provider mounted
FairAuth == WF_vars(safetyTimeout)

SpecAuthLive == SpecAuth /\ FairAuth

\* C29: after the provider mounts, loading eventually becomes false and stays
\* false, whether or not getSession and the admin check ever settle, and no
\* step sets it back to true
C29_LoadingEnds ==
  /\ <>[](~loading)
  /\ [][~loading => ~loading']_vars

\* the safety timeout has ended loading while initializeAuth still waits for
\* getSession
C29_Witness ==
  /\ ~loading
  /\ timeoutFired
  /\ CallsAt("initialSession") # {}
  /\ ~sessionReady \/ user = Null

----------------------------------------------------------------------------
(* handleMove and the display_order values of a lookup table *)

\* the multiset of display_order values of lookup table t: how many rows hold
\* each value
OrderCounts(t) ==
  [order \in {t[id].display_order : id \in LiveIds(t)} |->
     Cardinality({id \in LiveIds(t) : t[id].display_order = order})]

\* a handleMove(id, direction) call, under any outcome of its two updates and
\* of its fetch
MoveStep(id, direction) ==
  \E outcome1 \in WriteOutcomes, outcome2 \in WriteOutcomes,
     fetched \in FetchOutcomes :
    handleMove(id, direction, outcome1, outcome2, fetched)

\* C30: under every outcome of its two update calls handleMove leaves the
\* multiset of display_order values of the table as it was, and a move of the
\* first option up or of the last option down changes nothing
C30_MoveKeepsOrders ==
  [][\A id \in 1..MaxOptions, direction \in {"up", "down"} :
       MoveStep(id, direction) =>
         /\ OrderCounts(optionTable') = OrderCounts(optionTable)
         /\ (\/ direction = "up" /\ findIndex(tabOptions, id) = 1
             \/ direction = "down" /\ findIndex(tabOptions, id) = Len(tabOptions))
              => UNCHANGED <<optionTable, tabOptions>>]_vars

====
